---- MODULE Spec2Model ----
(***************************************************************************)
(* Model of the benchmarking functions of client.go: createAssetBench,     *)
(* createAssetEndorse, createAssetBenchDetailed and createAssetBenchEnd.   *)
(* One run of the program calls one of them (the switch of main) with the  *)
(* arguments tps and numAssets.  Every goroutine started by `go func(i)`   *)
(* is a task t with its own position pc[t]; the main goroutine's position  *)
(* is mpc.  The backend (contract.NewProposal, Endorse, Submit, Status,    *)
(* SubmitTransaction) is the environment: each call returns an error or a  *)
(* result, and takes a duration that grows with the load drawn from Loads.   *)
(* The model's clock advances only inside backend calls.                   *)
(***************************************************************************)
EXTENDS Integers, Sequences, FiniteSets, TLC

\* Bounds of the model.
MaxAssets == 2
MaxLoad == 2

\* time.Second and time.Millisecond, in nanoseconds (time.Duration's unit).
Second == 1000000000
Millisecond == 1000000
\* len(methods)
LenMethods == 5

Tasks == 0 .. (MaxAssets - 1)
\* The backend serves one transaction under a load drawn from Loads when its
\* goroutine (its loop iteration) starts; a call of a phase takes the load times
\* the phase's weight, in quarters of a millisecond.
Loads == 1 .. MaxLoad
PhaseWeight(phase) ==
    CASE phase = "Propose" -> 1
      [] phase = "Endorse" -> 1
      [] phase = "Submit" -> 2
      [] phase = "Status" -> 3
      [] phase = "SubmitTransaction" -> 7

\* The tps arguments tried: two that are rejected, and one that is accepted and
\* does not divide time.Second.
TpsArgs == {-1, 0, 3}

Bench == "createAssetBench"
Endorse == "createAssetEndorse"
Detailed == "createAssetBenchDetailed"
End == "createAssetBenchEnd"
Functions == {Bench, Endorse, Detailed, End}
Concurrent == {Bench, Detailed, End}
Staged == {Detailed, End}

NoHolder == -1

VARIABLES
    fn,                 \* the function main dispatched to
    tps, numAssets,     \* its parameters (numAssets is n in createAssetEndorse)
    argNumAssets,       \* history: the numAssets argument as passed
    interval,           \* time.Second / time.Duration(tps)
    mpc,                \* position of the main goroutine
    loopI,              \* the loop variable i of the main goroutine
    wg,                 \* the WaitGroup's counter
    pc,                 \* position of each task (of each iteration in createAssetEndorse)
    offset,             \* the argument each task gave time.Sleep
    load,               \* environment: the backend's load for each task's transaction
    outcome,            \* history: how each task ended
    calls,              \* history: the backend phases each task invoked, in order
    sent,               \* history: what each task sent, as <<channel, value>> pairs
    wgDone,             \* history: how often each task called wg.Done
    statusRet,          \* history: what commit.Status() returned to each task
    csv,                \* history: CSV data lines each task printed
    endorseTime, orderingTime, commitTime,  \* the tasks' locals
    tmp,                \* the value a task read for successfulTransactions++
    mu,                 \* holder of the mutex, or NoHolder
    successfulTransactions,
    latencyCh, endorseTimeCh, orderingTimeCh, commitTimeCh,
    closed,             \* whether the four channels are closed
    results,            \* createAssetBench's results slice
    written,            \* history: how often each slot of results was assigned
    totalLatency, totalEndorseTime, totalOrderingTime, totalCommitTime,
    totalElapsedTime,
    latenciesMs,        \* createAssetBench's latenciesMs slice
    report              \* what the function printed last / computed at its end

params == <<fn, tps, numAssets, argNumAssets, interval>>
chans == <<latencyCh, endorseTimeCh, orderingTimeCh, commitTimeCh>>
locals == <<endorseTime, orderingTime, commitTime>>
totals == <<totalLatency, totalEndorseTime, totalOrderingTime, totalCommitTime,
            totalElapsedTime, latenciesMs>>
hist == <<outcome, calls, sent, wgDone, statusRet, csv, written>>
vars == <<params, mpc, loopI, wg, pc, offset, load, hist, locals, tmp, mu,
          successfulTransactions, chans, closed, results, totals, report>>

\* Variant: only the first value received is added.
SumSeqFirst(s) == IF s = <<>> THEN 0 ELSE Head(s)

RECURSIVE SumSeq(_)
SumSeq(s) == IF s = <<>> THEN 0 ELSE Head(s) + SumSeq(Tail(s))

\* The zero value of txResult (make([]txResult, numAssets)).
ZeroResult == [Index |-> 0, Latency |-> 0, Success |-> FALSE, ErrorMessage |-> ""]

NoReport == [kind |-> "none"]

\* The state of everything but the arguments when main dispatches.
Dispatched ==
    /\ argNumAssets = numAssets
    /\ interval = 0
    /\ mpc = "entry"
    /\ loopI = 0
    /\ wg = 0
    /\ pc = [t \in Tasks |-> "idle"]
    /\ offset = [t \in Tasks |-> 0]
    /\ load = [t \in Tasks |-> 0]
    /\ outcome = [t \in Tasks |-> "none"]
    /\ calls = [t \in Tasks |-> <<>>]
    /\ sent = [t \in Tasks |-> {}]
    /\ wgDone = [t \in Tasks |-> 0]
    /\ statusRet = [t \in Tasks |-> "none"]
    /\ csv = [t \in Tasks |-> 0]
    /\ endorseTime = [t \in Tasks |-> 0]
    /\ orderingTime = [t \in Tasks |-> 0]
    /\ commitTime = [t \in Tasks |-> 0]
    /\ tmp = [t \in Tasks |-> 0]
    /\ mu = NoHolder
    /\ successfulTransactions = 0
    /\ latencyCh = <<>>
    /\ endorseTimeCh = <<>>
    /\ orderingTimeCh = <<>>
    /\ commitTimeCh = <<>>
    /\ closed = FALSE
    /\ results = <<>>
    /\ written = [t \in Tasks |-> 0]
    /\ totalLatency = 0
    /\ totalEndorseTime = 0
    /\ totalOrderingTime = 0
    /\ totalCommitTime = 0
    /\ totalElapsedTime = 0
    /\ latenciesMs = <<>>
    /\ report = NoReport

Init ==
    /\ fn \in Functions
    /\ tps \in IF fn = Endorse THEN {0} ELSE TpsArgs
    /\ numAssets \in (-1) .. MaxAssets
    /\ Dispatched

(***************************************************************************)
(* Entry of the three concurrent benchmarks: the checks of the arguments,  *)
(* interval, wg.Add(numAssets) and the make(...) calls.                    *)
(***************************************************************************)
\* Variant: only a negative tps is rejected.
InvalidTpsNegative(t) == t < 0

\* if tps <= 0 { ...; return }
InvalidTps(t) == t <= 0

\* Variant: the count is used as it was passed.
CoerceCountKeep(n) == n

\* if numAssets <= 0 { numAssets = 1 }
CoerceCount(n) == IF n <= 0 THEN 1 ELSE n

\* wg.Add(numAssets)
WgAdd(n) == n

\* Variant: the channels have room for one value less.
ChanCapShort(n) == n - 1

\* make(chan time.Duration, numAssets)
ChanCap(n) == n

\* An integer division a / time.Duration(b) with b = 0 is a run-time panic
\* ("integer divide by zero").
DivPanics(b) == b = 0

\* interval := time.Second / time.Duration(tps), an integer division of nanoseconds
Interval(t) == Second \div t

BenchEntry ==
    /\ mpc = "entry"
    /\ fn \in Concurrent
    /\ IF InvalidTps(tps)
         THEN /\ mpc' = "done"
              /\ report' = [kind |-> "invalidTps"]
              /\ UNCHANGED <<numAssets, interval, wg, results>>
         ELSE IF fn = Bench /\ LenMethods < 2
         THEN /\ mpc' = "done"
              /\ report' = [kind |-> "methodsTooShort"]
              /\ numAssets' = CoerceCount(numAssets)
              /\ UNCHANGED <<interval, wg, results>>
         ELSE IF DivPanics(tps)
         THEN \* time.Second / time.Duration(0)
              /\ mpc' = "panic"
              /\ report' = [kind |-> "divideByZero"]
              /\ numAssets' = CoerceCount(numAssets)
              /\ UNCHANGED <<interval, wg, results>>
         ELSE /\ numAssets' = CoerceCount(numAssets)
              /\ interval' = Interval(tps)
              /\ wg' = WgAdd(numAssets')
              /\ results' = IF fn = Bench
                              THEN [k \in 0 .. (numAssets' - 1) |-> ZeroResult]
                              ELSE results
              /\ mpc' = "run"
              /\ UNCHANGED report
    /\ UNCHANGED <<fn, tps, argNumAssets, loopI, pc, offset, load, hist, locals, tmp, mu,
                   successfulTransactions, chans, closed, totals>>

\* for i := 0; i < numAssets; i++ { go func(i int) {...}(i) }
Launch ==
    /\ mpc = "run"
    /\ fn \in Concurrent
    /\ loopI < numAssets
    /\ pc' = [pc EXCEPT ![loopI] = "sleep"]
    /\ loopI' = loopI + 1
    /\ UNCHANGED <<params, mpc, wg, offset, load, hist, locals, tmp, mu,
                   successfulTransactions, chans, closed, results, totals, report>>

\* Variant: goroutine i sleeps i + 1 intervals.
SleepOffsetNext(t) == (t + 1) * interval

\* time.Sleep(time.Duration(i) * interval)
SleepOffset(t) == t * interval

\* What the backend call of `phase` takes for task t.
Elapsed(t, phase) == load[t] * PhaseWeight(phase) * (Millisecond \div 4)

Sleep(t) ==
    /\ pc[t] = "sleep"
    /\ offset' = [offset EXCEPT ![t] = SleepOffset(t)]
    /\ \E l \in Loads : load' = [load EXCEPT ![t] = l]
    /\ pc' = [pc EXCEPT ![t] = IF fn = Bench THEN "submitTx" ELSE "propose"]
    /\ UNCHANGED <<params, mpc, loopI, wg, hist, locals, tmp, mu,
                   successfulTransactions, chans, closed, results, totals, report>>

(***************************************************************************)
(* The goroutine of createAssetBenchDetailed and createAssetBenchEnd.  A   *)
(* backend call and the statements up to the next backend call, channel    *)
(* send or shared access are one step.  A send has room when the channel   *)
(* holds fewer than its capacity; a send on a closed channel panics.       *)
(***************************************************************************)
Alive == mpc /= "panic"

\* Variant: a failed phase does not end the goroutine, which goes on with the next phase.
OnErrorContinue(next) == next

\* Variant: a failed phase returns with no wg.Done().
OnErrorNoDone(next) == "done"

\* The `return` of a failed phase: the function ends, and its deferred wg.Done() runs.
OnError(next) == "exit"

Push(s, e) == Append(s, e)

Propose(t) ==
    /\ Alive
    /\ fn \in Staged
    /\ pc[t] = "propose"
    /\ calls' = [calls EXCEPT ![t] = Append(@, "Propose")]
    /\ \E err \in BOOLEAN :
         IF err
           THEN /\ outcome' = [outcome EXCEPT ![t] = "ProposalError"]
                /\ pc' = [pc EXCEPT ![t] = OnError("endorse")]
           ELSE /\ pc' = [pc EXCEPT ![t] = "endorse"]
                /\ UNCHANGED outcome
    /\ UNCHANGED <<params, mpc, loopI, wg, offset, load, sent, wgDone, statusRet, csv,
                   written, locals,
                   tmp, mu, successfulTransactions, chans, closed, results, totals,
                   report>>

EndorseCall(t) ==
    /\ Alive
    /\ fn \in Staged
    /\ pc[t] = "endorse"
    /\ calls' = [calls EXCEPT ![t] = Append(@, "Endorse")]
    /\ \E err \in BOOLEAN :
         IF err
           THEN /\ outcome' = [outcome EXCEPT ![t] = "EndorseError"]
                /\ pc' = [pc EXCEPT ![t] = OnError("submit")]
                /\ UNCHANGED <<endorseTime, endorseTimeCh, sent, mpc>>
           ELSE /\ Len(endorseTimeCh) < ChanCap(numAssets)
                /\ endorseTime' = [endorseTime EXCEPT ![t] =
                                       Elapsed(t, "Propose") + Elapsed(t, "Endorse")]
                /\ IF closed
                     THEN mpc' = "panic" /\ UNCHANGED <<endorseTimeCh, sent>>
                     ELSE /\ endorseTimeCh' = Push(endorseTimeCh, endorseTime'[t])
                          /\ sent' = [sent EXCEPT ![t] = @ \cup {<<"endorse", endorseTime'[t]>>}]
                          /\ UNCHANGED mpc
                /\ pc' = [pc EXCEPT ![t] = "submit"]
                /\ UNCHANGED outcome
    /\ UNCHANGED <<params, loopI, wg, offset, load, wgDone, statusRet, csv, written,
                   orderingTime,
                   commitTime, tmp, mu, successfulTransactions, latencyCh,
                   orderingTimeCh, commitTimeCh, closed, results, totals, report>>

SubmitCall(t) ==
    /\ Alive
    /\ fn \in Staged
    /\ pc[t] = "submit"
    /\ calls' = [calls EXCEPT ![t] = Append(@, "Submit")]
    /\ \E err \in BOOLEAN :
         IF err
           THEN /\ outcome' = [outcome EXCEPT ![t] = "SubmitError"]
                /\ pc' = [pc EXCEPT ![t] = OnError("status")]
                /\ UNCHANGED <<orderingTime, orderingTimeCh, sent, mpc>>
           ELSE /\ Len(orderingTimeCh) < ChanCap(numAssets)
                /\ orderingTime' = [orderingTime EXCEPT ![t] = Elapsed(t, "Submit")]
                /\ IF closed
                     THEN mpc' = "panic" /\ UNCHANGED <<orderingTimeCh, sent>>
                     ELSE /\ orderingTimeCh' = Push(orderingTimeCh, orderingTime'[t])
                          /\ sent' = [sent EXCEPT ![t] = @ \cup {<<"ordering", orderingTime'[t]>>}]
                          /\ UNCHANGED mpc
                /\ pc' = [pc EXCEPT ![t] = "status"]
                /\ UNCHANGED outcome
    /\ UNCHANGED <<params, loopI, wg, offset, load, wgDone, statusRet, csv, written,
                   endorseTime,
                   commitTime, tmp, mu, successfulTransactions, latencyCh,
                   endorseTimeCh, commitTimeCh, closed, results, totals, report>>

\* What commit.Status() can return: an error, or a status with its Successful flag.
StatusReturns ==
    {[err |-> TRUE, successful |-> FALSE],
     [err |-> FALSE, successful |-> FALSE],
     [err |-> FALSE, successful |-> TRUE]}

\* Variant: only an error of commit.Status() is a failure.
StatusFailedErrOnly(r) == r.err

\* if err != nil || !status.Successful
StatusFailed(r) == r.err \/ ~r.successful

StatusErrorKind(r) == IF r.err THEN "CommitStatusError" ELSE "CommitError"

\* What the call returned, for the history.
StatusKind(r) ==
    IF r.err THEN "error" ELSE IF r.successful THEN "successful" ELSE "unsuccessful"

StatusCall(t) ==
    /\ Alive
    /\ fn \in Staged
    /\ pc[t] = "status"
    /\ calls' = [calls EXCEPT ![t] = Append(@, "Status")]
    /\ \E r \in StatusReturns :
         /\ statusRet' = [statusRet EXCEPT ![t] = StatusKind(r)]
         /\ IF StatusFailed(r)
              THEN /\ outcome' = [outcome EXCEPT ![t] = StatusErrorKind(r)]
                   /\ pc' = [pc EXCEPT ![t] = OnError(IF fn = End THEN "lock" ELSE "incr")]
                   /\ UNCHANGED <<commitTime, commitTimeCh, sent, mpc>>
              ELSE /\ Len(commitTimeCh) < ChanCap(numAssets)
                   /\ commitTime' = [commitTime EXCEPT ![t] = Elapsed(t, "Status")]
                   /\ IF closed
                        THEN mpc' = "panic" /\ UNCHANGED <<commitTimeCh, sent>>
                        ELSE /\ commitTimeCh' = Push(commitTimeCh, commitTime'[t])
                             /\ sent' = [sent EXCEPT ![t] =
                                             @ \cup {<<"commit", commitTime'[t]>>}]
                             /\ UNCHANGED mpc
                   /\ pc' = [pc EXCEPT ![t] = IF fn = End THEN "lock" ELSE "incr"]
                   /\ UNCHANGED outcome
    /\ UNCHANGED <<params, loopI, wg, offset, load, wgDone, csv, written, endorseTime,
                   orderingTime, tmp, mu, successfulTransactions, latencyCh,
                   endorseTimeCh, orderingTimeCh, closed, results, totals, report>>

\* Variant: mu.Lock() returns at once, whoever holds mu.
CanLockAlways == TRUE

\* mu.Lock() returns when no goroutine holds mu.
CanLock == mu = NoHolder

\* createAssetBenchEnd: mu.Lock() and the read of successfulTransactions++
MuLock(t) ==
    /\ Alive
    /\ fn = End
    /\ pc[t] = "lock"
    /\ CanLock
    /\ mu' = t
    /\ tmp' = [tmp EXCEPT ![t] = successfulTransactions]
    /\ pc' = [pc EXCEPT ![t] = "unlock"]
    /\ UNCHANGED <<params, mpc, loopI, wg, offset, load, hist, locals,
                   successfulTransactions, chans, closed, results, totals, report>>

\* createAssetBenchEnd: the write of successfulTransactions++ and mu.Unlock()
MuUnlock(t) ==
    /\ Alive
    /\ fn = End
    /\ pc[t] = "unlock"
    /\ successfulTransactions' = tmp[t] + 1
    /\ mu' = NoHolder
    /\ tmp' = [tmp EXCEPT ![t] = 0]
    /\ pc' = [pc EXCEPT ![t] = "latency"]
    /\ UNCHANGED <<params, mpc, loopI, wg, offset, load, hist, locals, chans, closed,
                   results, totals, report>>

\* createAssetBenchDetailed: successfulTransactions++ with no lock, its read ...
ReadCounter(t) ==
    /\ Alive
    /\ fn = Detailed
    /\ pc[t] = "incr"
    /\ tmp' = [tmp EXCEPT ![t] = successfulTransactions]
    /\ pc' = [pc EXCEPT ![t] = "incrW"]
    /\ UNCHANGED <<params, mpc, loopI, wg, offset, load, hist, locals, mu,
                   successfulTransactions, chans, closed, results, totals, report>>

\* ... and its write
WriteCounter(t) ==
    /\ Alive
    /\ fn = Detailed
    /\ pc[t] = "incrW"
    /\ successfulTransactions' = tmp[t] + 1
    /\ tmp' = [tmp EXCEPT ![t] = 0]
    /\ pc' = [pc EXCEPT ![t] = "latency"]
    /\ UNCHANGED <<params, mpc, loopI, wg, offset, load, hist, locals, mu, chans, closed,
                   results, totals, report>>

\* Variant: the commit duration is left out of the latency.
TotalTimeNoCommit(t) == endorseTime[t] + orderingTime[t]

\* totalTime := endorseTime + orderingTime + commitTime
TotalTime(t) == endorseTime[t] + orderingTime[t] + commitTime[t]

\* Variant: the goroutine prints no CSV line.
CsvNone(n) == n

\* CSV data lines the goroutine of createAssetBenchDetailed prints after the send
CsvAfterSend(n) == n + 1

\* latencyCh <- totalTime (and, in createAssetBenchDetailed, the CSV line)
SendLatency(t) ==
    /\ Alive
    /\ fn \in Staged
    /\ pc[t] = "latency"
    /\ Len(latencyCh) < ChanCap(numAssets)
    /\ IF closed
         THEN mpc' = "panic" /\ UNCHANGED <<latencyCh, sent, csv>>
         ELSE /\ latencyCh' = Push(latencyCh, TotalTime(t))
              /\ sent' = [sent EXCEPT ![t] = @ \cup {<<"latency", TotalTime(t)>>}]
              /\ csv' = IF fn = Detailed THEN [csv EXCEPT ![t] = CsvAfterSend(@)] ELSE csv
              /\ UNCHANGED mpc
    /\ outcome' = [outcome EXCEPT ![t] = "ok"]
    /\ pc' = [pc EXCEPT ![t] = "exit"]
    /\ UNCHANGED <<params, loopI, wg, offset, load, calls, wgDone, statusRet, written,
                   locals, tmp, mu,
                   successfulTransactions, endorseTimeCh, orderingTimeCh, commitTimeCh,
                   closed, results, totals, report>>

\* defer wg.Done(): the goroutine returns; its locals are gone.
TaskExit(t) ==
    /\ Alive
    /\ fn \in Concurrent
    /\ pc[t] = "exit"
    /\ IF wg - 1 < 0
         THEN mpc' = "panic" /\ UNCHANGED wg
         ELSE wg' = wg - 1 /\ UNCHANGED mpc
    /\ wgDone' = [wgDone EXCEPT ![t] = @ + 1]
    /\ pc' = [pc EXCEPT ![t] = "done"]
    /\ endorseTime' = [endorseTime EXCEPT ![t] = 0]
    /\ orderingTime' = [orderingTime EXCEPT ![t] = 0]
    /\ commitTime' = [commitTime EXCEPT ![t] = 0]
    /\ load' = [load EXCEPT ![t] = 0]
    /\ UNCHANGED <<params, loopI, offset, outcome, calls, sent, csv, written, statusRet,
                   tmp, mu,
                   successfulTransactions, chans, closed, results, totals, report>>

(***************************************************************************)
(* The main goroutine after the launch loop.                               *)
(***************************************************************************)
\* Variant: wg.Wait() returns at once.
WaitReturnsAtOnce(c) == TRUE

\* wg.Wait() returns when the counter is zero.
WaitReturns(c) == c = 0

Wait ==
    /\ mpc = "run"
    /\ fn \in Concurrent
    /\ loopI >= numAssets
    /\ WaitReturns(wg)
    /\ mpc' = IF fn = Bench THEN "table" ELSE "close"
    /\ UNCHANGED <<params, loopI, wg, pc, offset, load, hist, locals, tmp, mu,
                   successfulTransactions, chans, closed, results, totals, report>>

\* close(latencyCh); close(endorseTimeCh); close(orderingTimeCh); close(commitTimeCh)
Close ==
    /\ mpc = "close"
    /\ closed' = TRUE
    /\ IF fn = End
         THEN mpc' = "drain" /\ UNCHANGED report
         ELSE mpc' = "done" /\ report' = [kind |-> "csv"]
    /\ UNCHANGED <<params, loopI, wg, pc, offset, load, hist, locals, tmp, mu,
                   successfulTransactions, chans, results, totals>>

\* for v := range ch { total += v }, for the four channels: each loop ends when
\* its channel is closed and empty.
Drain ==
    /\ mpc = "drain"
    /\ closed
    /\ totalLatency' = totalLatency + SumSeq(latencyCh)
    /\ totalEndorseTime' = totalEndorseTime + SumSeq(endorseTimeCh)
    /\ totalOrderingTime' = totalOrderingTime + SumSeq(orderingTimeCh)
    /\ totalCommitTime' = totalCommitTime + SumSeq(commitTimeCh)
    /\ latencyCh' = <<>>
    /\ endorseTimeCh' = <<>>
    /\ orderingTimeCh' = <<>>
    /\ commitTimeCh' = <<>>
    /\ mpc' = "report"
    /\ UNCHANGED <<params, loopI, wg, pc, offset, load, hist, locals, tmp, mu,
                   successfulTransactions, closed, results, totalElapsedTime,
                   latenciesMs, report>>

\* Variant: the check of a zero success count is missing.
NoSuccessUnchecked(n) == FALSE

\* if successfulTransactions == 0 { ...; return }
NoSuccess(n) == n = 0

\* total / time.Duration(n), for n /= 0: integer division
DurationDiv(a, b) == a \div b

\* The averages of createAssetBenchEnd.
EndAverages ==
    [kind |-> "summary",
     averageLatency |-> DurationDiv(totalLatency, successfulTransactions),
     averageEndorseTime |-> DurationDiv(totalEndorseTime, successfulTransactions),
     averageOrderingTime |-> DurationDiv(totalOrderingTime, successfulTransactions),
     averageCommitTime |-> DurationDiv(totalCommitTime, successfulTransactions)]

ReportEnd ==
    /\ mpc = "report"
    /\ IF NoSuccess(successfulTransactions)
         THEN mpc' = "done" /\ report' = [kind |-> "noSuccess"]
         ELSE IF DivPanics(successfulTransactions)
         THEN mpc' = "panic" /\ report' = [kind |-> "divideByZero"]
         ELSE mpc' = "done" /\ report' = EndAverages
    /\ UNCHANGED <<params, loopI, wg, pc, offset, load, hist, locals, tmp, mu,
                   successfulTransactions, chans, closed, results, totals>>

(***************************************************************************)
(* createAssetBench: the goroutine's SubmitTransaction and its write of    *)
(* results[i]; then, after wg.Wait, the detail table and the summary.      *)
(***************************************************************************)
\* Variant: every goroutine assigns the first slot.
ResultSlotFirst(t) == 0

\* The slot of results the goroutine i assigns.
ResultSlot(t) == t

\* txResult{i, txStartTime, txEndTime, txEndTime.Sub(txStartTime), err == nil, ...}
TxResult(t, err) ==
    [Index |-> t, Latency |-> Elapsed(t, "SubmitTransaction"), Success |-> ~err,
     ErrorMessage |-> IF err THEN "error" ELSE ""]

SubmitTx(t) ==
    /\ Alive
    /\ fn = Bench
    /\ pc[t] = "submitTx"
    /\ calls' = [calls EXCEPT ![t] = Append(@, "SubmitTransaction")]
    /\ \E err \in BOOLEAN :
         /\ results' = [results EXCEPT ![ResultSlot(t)] = TxResult(t, err)]
         /\ outcome' = [outcome EXCEPT ![t] = IF err THEN "SubmitTxError" ELSE "ok"]
    /\ written' = [written EXCEPT ![ResultSlot(t)] = @ + 1]
    /\ pc' = [pc EXCEPT ![t] = "exit"]
    /\ UNCHANGED <<params, mpc, loopI, wg, offset, load, sent, wgDone, statusRet, csv,
                   locals, tmp,
                   mu, successfulTransactions, chans, closed, totals, report>>

\* time.Duration.Milliseconds()
Milliseconds(d) == d \div Millisecond

\* Variant: every result enters the statistics.
CountedAll(res) == TRUE

\* if res.Success { ... }
Counted(res) == res.Success

\* The loop over results: the latencies (ms) of the results that count, in order.
RECURSIVE CountedLatencies(_, _)
CountedLatencies(rs, k) ==
    IF k \notin DOMAIN rs THEN <<>>
    ELSE (IF Counted(rs[k]) THEN <<Milliseconds(rs[k].Latency)>> ELSE <<>>)
           \o CountedLatencies(rs, k + 1)

Table ==
    /\ mpc = "table"
    /\ latenciesMs' = latenciesMs \o CountedLatencies(results, 0)
    /\ successfulTransactions' = successfulTransactions + Len(CountedLatencies(results, 0))
    /\ totalLatency' = totalLatency + SumSeq(CountedLatencies(results, 0))
    /\ mpc' = "summary"
    /\ UNCHANGED <<params, loopI, wg, pc, offset, load, hist, locals, tmp, mu, chans,
                   closed, results, totalEndorseTime, totalOrderingTime,
                   totalCommitTime, totalElapsedTime, report>>

\* A float64 quotient a / b, kept as the pair: b = 0 is NaN when a = 0 and an
\* infinity otherwise (float division does not panic).
FloatDiv(a, b) == [num |-> a, den |-> b]
IsNaN(x) == x.den = 0 /\ x.num = 0

RECURSIVE SumSqDev(_, _, _)
\* The sum over seq of (n * l - total)^2, which is n^2 times the sum of (l - mean)^2.
SumSqDev(seq, n, total) ==
    IF seq = <<>> THEN 0
    ELSE (n * Head(seq) - total) * (n * Head(seq) - total) + SumSqDev(Tail(seq), n, total)

\* meanLatency := totalLatency / float64(successfulTransactions)
MeanLatency == FloatDiv(totalLatency, successfulTransactions)

\* stdDev / float64(successfulTransactions), before math.Sqrt: the variance.
Variance ==
    FloatDiv(SumSqDev(latenciesMs, successfulTransactions, totalLatency),
             successfulTransactions * successfulTransactions * successfulTransactions)

Summary ==
    /\ mpc = "summary"
    /\ report' = [kind |-> "summary", tps |-> tps, sent |-> numAssets,
                  success |-> successfulTransactions,
                  meanLatency |-> MeanLatency, variance |-> Variance]
    /\ mpc' = "done"
    /\ UNCHANGED <<params, loopI, wg, pc, offset, load, hist, locals, tmp, mu,
                   successfulTransactions, chans, closed, results, totals>>

(***************************************************************************)
(* createAssetEndorse: one goroutine, n transactions one after the other.  *)
(* pc[loopI] is the position inside iteration loopI.                       *)
(***************************************************************************)
EndorseEntry ==
    /\ mpc = "entry"
    /\ fn = Endorse
    /\ numAssets' = CoerceCount(numAssets)
    /\ mpc' = "loop"
    /\ UNCHANGED <<fn, tps, argNumAssets, interval, loopI, wg, pc, offset, load, hist,
                   locals, tmp, mu, successfulTransactions, chans, closed, results,
                   totals, report>>

\* `continue`: the iteration ends and the loop goes on with i + 1.
Continue(i) == i + 1

\* contract.NewProposal: an error panics.
SeqProposal ==
    /\ mpc = "loop"
    /\ loopI < numAssets
    /\ pc[loopI] = "idle"
    /\ calls' = [calls EXCEPT ![loopI] = Append(@, "Propose")]
    /\ \E l \in Loads : load' = [load EXCEPT ![loopI] = l]
    /\ \E err \in BOOLEAN :
         IF err
           THEN /\ mpc' = "panic"
                /\ outcome' = [outcome EXCEPT ![loopI] = "ProposalError"]
                /\ report' = [kind |-> "panic"]
                /\ UNCHANGED pc
           ELSE /\ pc' = [pc EXCEPT ![loopI] = "endorse"]
                /\ UNCHANGED <<mpc, outcome, report>>
    /\ UNCHANGED <<params, loopI, wg, offset, sent, wgDone, statusRet, csv, written,
                   locals, tmp,
                   mu, successfulTransactions, chans, closed, results, totals>>

SeqEndorse ==
    /\ mpc = "loop"
    /\ loopI < numAssets
    /\ pc[loopI] = "endorse"
    /\ calls' = [calls EXCEPT ![loopI] = Append(@, "Endorse")]
    /\ \E err \in BOOLEAN :
         IF err
           THEN /\ outcome' = [outcome EXCEPT ![loopI] = "EndorseError"]
                /\ pc' = [pc EXCEPT ![loopI] = "done"]
                /\ loopI' = Continue(loopI)
                /\ UNCHANGED <<endorseTime, totalEndorseTime>>
           ELSE /\ endorseTime' = [endorseTime EXCEPT ![loopI] = Elapsed(loopI, "Endorse")]
                /\ totalEndorseTime' = totalEndorseTime + endorseTime'[loopI]
                /\ pc' = [pc EXCEPT ![loopI] = "submit"]
                /\ UNCHANGED <<outcome, loopI>>
    /\ UNCHANGED <<params, mpc, wg, offset, load, sent, wgDone, statusRet, csv, written,
                   orderingTime, commitTime, tmp, mu, successfulTransactions, chans,
                   closed, results, totalLatency, totalOrderingTime, totalCommitTime,
                   totalElapsedTime, latenciesMs, report>>

SeqSubmit ==
    /\ mpc = "loop"
    /\ loopI < numAssets
    /\ pc[loopI] = "submit"
    /\ calls' = [calls EXCEPT ![loopI] = Append(@, "Submit")]
    /\ \E err \in BOOLEAN :
         IF err
           THEN /\ outcome' = [outcome EXCEPT ![loopI] = "SubmitError"]
                /\ pc' = [pc EXCEPT ![loopI] = "done"]
                /\ loopI' = Continue(loopI)
                /\ UNCHANGED <<orderingTime, totalOrderingTime>>
           ELSE /\ orderingTime' = [orderingTime EXCEPT ![loopI] = Elapsed(loopI, "Submit")]
                /\ totalOrderingTime' = totalOrderingTime + orderingTime'[loopI]
                /\ pc' = [pc EXCEPT ![loopI] = "status"]
                /\ UNCHANGED <<outcome, loopI>>
    /\ UNCHANGED <<params, mpc, wg, offset, load, sent, wgDone, statusRet, csv, written,
                   endorseTime, commitTime, tmp, mu, successfulTransactions, chans,
                   closed, results, totalLatency, totalEndorseTime, totalCommitTime,
                   totalElapsedTime, latenciesMs, report>>

\* elapsedTime := endTime.Sub(startTime), startTime taken before NewProposal
ElapsedTime(t) ==
    Elapsed(t, "Propose") + Elapsed(t, "Endorse") + Elapsed(t, "Submit")
      + Elapsed(t, "Status")

\* commit.Status() and, when it succeeded, the rest of the iteration; the
\* iteration's locals end with it.
SeqStatus ==
    /\ mpc = "loop"
    /\ loopI < numAssets
    /\ pc[loopI] = "status"
    /\ calls' = [calls EXCEPT ![loopI] = Append(@, "Status")]
    /\ \E r \in StatusReturns :
         /\ statusRet' = [statusRet EXCEPT ![loopI] = StatusKind(r)]
         /\ IF StatusFailed(r)
              THEN /\ outcome' = [outcome EXCEPT ![loopI] = StatusErrorKind(r)]
                   /\ UNCHANGED <<totalCommitTime, totalElapsedTime,
                                  successfulTransactions>>
              ELSE /\ outcome' = [outcome EXCEPT ![loopI] = "ok"]
                   /\ totalCommitTime' = totalCommitTime + Elapsed(loopI, "Status")
                   /\ totalElapsedTime' = totalElapsedTime + ElapsedTime(loopI)
                   /\ successfulTransactions' = successfulTransactions + 1
    /\ pc' = [pc EXCEPT ![loopI] = "done"]
    /\ loopI' = Continue(loopI)
    /\ UNCHANGED <<params, mpc, wg, offset, load, sent, wgDone, csv, written, locals,
                   tmp, mu, chans, closed, results, totalLatency, totalEndorseTime,
                   totalOrderingTime, latenciesMs, report>>

\* The averages of createAssetEndorse.
SeqAverages ==
    [kind |-> "summary",
     averageEndorseTime |-> DurationDiv(totalEndorseTime, successfulTransactions),
     averageOrderingTime |-> DurationDiv(totalOrderingTime, successfulTransactions),
     averageCommitTime |-> DurationDiv(totalCommitTime, successfulTransactions),
     averageTotalTime |-> DurationDiv(totalElapsedTime, successfulTransactions)]

\* After the loop: the averages are computed with no check of the divisor.
SeqFinal ==
    /\ mpc = "loop"
    /\ loopI >= numAssets
    /\ IF DivPanics(successfulTransactions)
         THEN mpc' = "panic" /\ report' = [kind |-> "divideByZero"]
         ELSE mpc' = "done" /\ report' = SeqAverages
    /\ UNCHANGED <<params, loopI, wg, pc, offset, load, hist, locals, tmp, mu,
                   successfulTransactions, chans, closed, results, totals>>

Next ==
    \/ BenchEntry
    \/ Launch
    \/ \E t \in Tasks : Sleep(t)
    \/ \E t \in Tasks : Propose(t)
    \/ \E t \in Tasks : EndorseCall(t)
    \/ \E t \in Tasks : SubmitCall(t)
    \/ \E t \in Tasks : StatusCall(t)
    \/ \E t \in Tasks : MuLock(t)
    \/ \E t \in Tasks : MuUnlock(t)
    \/ \E t \in Tasks : ReadCounter(t)
    \/ \E t \in Tasks : WriteCounter(t)
    \/ \E t \in Tasks : SendLatency(t)
    \/ \E t \in Tasks : TaskExit(t)
    \/ \E t \in Tasks : SubmitTx(t)
    \/ Wait
    \/ Close
    \/ Drain
    \/ ReportEnd
    \/ Table
    \/ Summary
    \/ EndorseEntry
    \/ SeqProposal
    \/ SeqEndorse
    \/ SeqSubmit
    \/ SeqStatus
    \/ SeqFinal

Spec == Init /\ [][Next]_vars

\* The goroutines are scheduled and every backend call returns: a step that
\* can be taken is taken in the end.
FairSpec == Spec /\ WF_vars(Next)

(***************************************************************************)
(* createAssetBenchDetailed and createAssetBenchEnd alone: the two          *)
(* functions whose goroutines report through the four channels.            *)
(***************************************************************************)
StagedInit ==
    /\ fn \in Staged
    /\ tps \in TpsArgs
    /\ numAssets \in (-1) .. MaxAssets
    /\ Dispatched

StagedNext ==
    \/ BenchEntry
    \/ Launch
    \/ \E t \in Tasks : Sleep(t)
    \/ \E t \in Tasks : Propose(t)
    \/ \E t \in Tasks : EndorseCall(t)
    \/ \E t \in Tasks : SubmitCall(t)
    \/ \E t \in Tasks : StatusCall(t)
    \/ \E t \in Tasks : MuLock(t)
    \/ \E t \in Tasks : MuUnlock(t)
    \/ \E t \in Tasks : ReadCounter(t)
    \/ \E t \in Tasks : WriteCounter(t)
    \/ \E t \in Tasks : SendLatency(t)
    \/ \E t \in Tasks : TaskExit(t)
    \/ Wait
    \/ Close
    \/ Drain
    \/ ReportEnd

StagedSpec == StagedInit /\ [][StagedNext]_vars

(***************************************************************************)
(* The release schedule alone: a concurrent benchmark called with every    *)
(* tps of 1 .. MaxTps, up to the point where each goroutine has computed   *)
(* its offset and slept.                                                   *)
(***************************************************************************)
MaxTps == 4

SchedInit ==
    /\ fn \in Concurrent
    /\ tps \in 1 .. MaxTps
    /\ numAssets \in (-1) .. MaxAssets
    /\ Dispatched

SchedNext ==
    \/ BenchEntry
    \/ Launch
    \/ \E t \in Tasks : Sleep(t)

SchedSpec == SchedInit /\ [][SchedNext]_vars

(***************************************************************************)
(* Properties.                                                             *)
(***************************************************************************)
Failures == {"ProposalError", "EndorseError", "SubmitError", "CommitStatusError",
             "CommitError", "SubmitTxError"}

\* The main goroutine is past wg.Wait().
Joined ==
    /\ fn \in Concurrent
    /\ \/ mpc \in {"table", "summary", "close", "drain", "report"}
       \/ mpc = "done" /\ report.kind \in {"summary", "noSuccess", "csv"}

\* The four channels still hold what was sent (createAssetBenchEnd's loops have
\* not received yet).
Undrained == mpc \in {"run", "close", "drain"}

Chan(name) ==
    CASE name = "latency" -> latencyCh
      [] name = "endorse" -> endorseTimeCh
      [] name = "ordering" -> orderingTimeCh
      [] name = "commit" -> commitTimeCh

ChanNames == {"latency", "endorse", "ordering", "commit"}

SentOn(t) == {p[1] : p \in sent[t]}

Count(seq, v) == Cardinality({k \in DOMAIN seq : seq[k] = v})

IsPrefix(a, b) == Len(a) <= Len(b) /\ SubSeq(b, 1, Len(a)) = a

\* C1: in createAssetBench every slot of results is assigned at most once, an
\* assigned slot k was assigned by goroutine k (Index = k) after its
\* SubmitTransaction, an unassigned slot still holds the zero value, and once
\* wg.Wait has returned results holds exactly numAssets results, every one assigned.
C1_IndexedSlots ==
    fn = Bench =>
      /\ \A k \in Tasks :
           /\ written[k] <= 1
           /\ written[k] = 1 =>
                /\ k \in DOMAIN results
                /\ results[k].Index = k
                /\ pc[k] \in {"exit", "done"}
                /\ results[k].Success = (outcome[k] = "ok")
           /\ (written[k] = 0 /\ k \in DOMAIN results) => results[k] = ZeroResult
      /\ Joined =>
           /\ DOMAIN results = 0 .. (numAssets - 1)
           /\ \A k \in Tasks : written[k] = (IF k < numAssets THEN 1 ELSE 0)

C1_Witness ==
    /\ fn = Bench
    /\ mpc = "summary"
    /\ numAssets = 2
    /\ results[0].Success
    /\ ~results[1].Success
    /\ results[1].Index = 1

\* C2: while the main goroutine of createAssetBench or createAssetBenchEnd is
\* at its aggregation (the table loop and the summary; the drain loops and
\* the averages), every one of the numAssets goroutines has returned.
C2_AggregationAfterJoin ==
    (fn \in {Bench, End} /\ mpc \in {"table", "summary", "drain", "report"}) =>
      /\ loopI = numAssets
      /\ \A t \in Tasks : pc[t] = (IF t < numAssets THEN "done" ELSE "idle")

C2_Witness ==
    /\ fn = End
    /\ mpc = "drain"
    /\ numAssets = 2
    /\ Len(latencyCh) = 1
    /\ Len(endorseTimeCh) = 2

\* C3 (as claimed): after the join barrier of createAssetBenchDetailed and
\* createAssetBenchEnd the collector holds something of every task.
C3_HeldResultsEqualTaskCount ==
    (fn \in Staged /\ mpc = "close") =>
      Cardinality({t \in Tasks : sent[t] /= {}}) = numAssets

\* The channels a goroutine that failed with `kind` has sent on.
DeliveredBefore(kind) ==
    CASE kind \in {"ProposalError", "EndorseError"} -> {}
      [] kind = "SubmitError" -> {"endorse"}
      [] kind \in {"CommitStatusError", "CommitError"} -> {"endorse", "ordering"}

\* C4: in createAssetBenchDetailed and createAssetBenchEnd a goroutine that
\* failed at a phase has sent exactly on the channels of the phases before it
\* (nothing on that phase's channel, on a later one or on latencyCh), and
\* until the channels are drained every channel holds exactly the values the
\* goroutines sent on it.
C4_FailureKeepsEarlierDurations ==
    fn \in Staged =>
      /\ \A t \in Tasks :
           outcome[t] \in Failures => SentOn(t) = DeliveredBefore(outcome[t])
      /\ Undrained =>
           \A name \in ChanNames :
             /\ Len(Chan(name)) = Cardinality({t \in Tasks : name \in SentOn(t)})
             /\ \A t \in Tasks : \A p \in sent[t] :
                  p[1] = name =>
                    Count(Chan(name), p[2])
                      = Cardinality({u \in Tasks : p \in sent[u]})

C4_Witness ==
    /\ fn = End
    /\ mpc = "close"
    /\ numAssets = 2
    /\ outcome[0] = "ok"
    /\ outcome[1] = "CommitError"
    /\ Len(endorseTimeCh) = 2
    /\ Len(orderingTimeCh) = 2
    /\ Len(commitTimeCh) = 1
    /\ Len(latencyCh) = 1

PhaseOrder == <<"Propose", "Endorse", "Submit", "Status">>

\* The phase a goroutine that failed with `kind` called last.
FailedPhase(kind) ==
    CASE kind = "ProposalError" -> 1
      [] kind = "EndorseError" -> 2
      [] kind = "SubmitError" -> 3
      [] kind \in {"CommitStatusError", "CommitError"} -> 4

\* C5: in createAssetBenchDetailed, createAssetBenchEnd and createAssetEndorse
\* the calls of a task are a prefix of Propose, Endorse, Submit, Status (that
\* order, each at most once); a task that failed made no call after the phase
\* that failed, and a task that succeeded made all four.
C5_PhaseOrder ==
    fn \in Staged \cup {Endorse} =>
      \A t \in Tasks :
        /\ IsPrefix(calls[t], PhaseOrder)
        /\ outcome[t] \in Failures =>
             calls[t] = SubSeq(PhaseOrder, 1, FailedPhase(outcome[t]))
        /\ outcome[t] = "ok" => calls[t] = PhaseOrder

C5_Witness ==
    /\ fn = Endorse
    /\ mpc = "done"
    /\ numAssets = 2
    /\ outcome[0] = "SubmitError"
    /\ calls[0] = <<"Propose", "Endorse", "Submit">>
    /\ outcome[1] = "ok"

\* A step in which task t fails leaves every other task, the main goroutine,
\* the channels, the counter and the other tasks' results as they were.
FailureConfined ==
    \A t \in Tasks :
      (outcome[t] = "none" /\ outcome'[t] \in Failures) =>
        /\ \A u \in Tasks \ {t} :
             /\ pc'[u] = pc[u]
             /\ outcome'[u] = outcome[u]
             /\ calls'[u] = calls[u]
             /\ sent'[u] = sent[u]
             /\ u \in DOMAIN results => results'[u] = results[u]
        /\ mpc' = mpc
        /\ chans' = chans
        /\ successfulTransactions' = successfulTransactions
        /\ pc'[t] = "exit"

\* C6: in the three concurrent benchmarks a failing phase of one task changes
\* nothing of the other tasks or of the batch, no run panics, and until the
\* function has returned some goroutine can always take a step: the other
\* tasks run on and the join barrier is reached.
C6_ErrorConfined ==
    /\ [](fn \in Concurrent => (mpc /= "panic" /\ (mpc /= "done" => ENABLED Next)))
    /\ [][(fn \in Concurrent) => FailureConfined]_vars

C6_Witness ==
    /\ fn = Detailed
    /\ mpc = "done"
    /\ numAssets = 2
    /\ outcome[0] = "EndorseError"
    /\ outcome[1] = "ok"
    /\ wgDone[0] = 1

\* C7: with tps <= 0 the three concurrent benchmarks return from their first
\* check: no goroutine is started, no backend call is made, nothing is
\* counted, sent or stored, and the function has reported the invalid tps.
C7_InvalidTpsRejected ==
    (fn \in Concurrent /\ tps <= 0) =>
      /\ mpc \in {"entry", "done"}
      /\ mpc = "done" => report.kind = "invalidTps"
      /\ loopI = 0
      /\ wg = 0
      /\ \A t \in Tasks : pc[t] = "idle" /\ calls[t] = <<>> /\ sent[t] = {}
      /\ \A name \in ChanNames : Chan(name) = <<>>
      /\ results = <<>>
      /\ successfulTransactions = 0

C7_Witness ==
    /\ fn = End
    /\ tps = 0
    /\ mpc = "done"
    /\ report.kind = "invalidTps"

\* C8: createAssetBenchEnd never divides by a zero success count: when it
\* ends with successfulTransactions = 0 after the join barrier it has reported
\* "no successful transactions" and computed no average.
C8_EndNoSuccess ==
    fn = End =>
      /\ mpc /= "panic"
      /\ (mpc = "done" /\ tps > 0 /\ successfulTransactions = 0) =>
           report = [kind |-> "noSuccess"]
      /\ (mpc = "done" /\ report.kind = "summary") => successfulTransactions > 0

C8_Witness ==
    /\ fn = End
    /\ mpc = "done"
    /\ numAssets = 2
    /\ successfulTransactions = 0
    /\ report.kind = "noSuccess"
    /\ totalEndorseTime > 0

\* C9 (as claimed): when createAssetBench ends with no successful transaction,
\* its mean latency and standard deviation are not quotients by zero.
C9_BenchNoData ==
    (fn = Bench /\ mpc = "done" /\ report.kind = "summary" /\ report.success = 0) =>
      /\ report.meanLatency.den /= 0
      /\ report.variance.den /= 0

\* The number of tasks that sent a duration on the channel `name`.
Recorded(name) == Cardinality({t \in Tasks : name \in SentOn(t)})

\* C10 (as claimed): every per-phase mean createAssetBenchEnd reports is the
\* phase's total divided by the number of tasks that recorded the phase.
C10_PerPhaseMean ==
    (fn = End /\ mpc = "done" /\ report.kind = "summary") =>
      /\ report.averageEndorseTime = totalEndorseTime \div Recorded("endorse")
      /\ report.averageOrderingTime = totalOrderingTime \div Recorded("ordering")
      /\ report.averageCommitTime = totalCommitTime \div Recorded("commit")

\* The tasks that completed all their phases.
Completed == {t \in Tasks : outcome[t] = "ok"}

\* C11: in createAssetBenchEnd the increment of successfulTransactions runs
\* under mu: at most one task is between mu.Lock and mu.Unlock, it is the holder
\* of mu and the counter still has the value it read; the counter is the number
\* of tasks that left the critical section, and once wg.Wait has returned it is
\* exactly the number of tasks that completed all phases.
C11_CounterUnderMutex ==
    fn = End =>
      /\ \A t \in Tasks : (pc[t] = "unlock") <=> (mu = t)
      /\ \A t \in Tasks : pc[t] = "unlock" => tmp[t] = successfulTransactions
      /\ successfulTransactions =
           Cardinality({t \in Tasks : pc[t] = "latency" \/ outcome[t] = "ok"})
      /\ Joined => (mu = NoHolder /\ successfulTransactions = Cardinality(Completed))

C11_Witness ==
    /\ fn = End
    /\ mpc = "drain"
    /\ numAssets = 2
    /\ mu = NoHolder
    /\ Completed = {0, 1}
    /\ successfulTransactions = 2

\* C12 (as claimed): in createAssetBenchDetailed successfulTransactions is
\* updated under mutual exclusion, so that after wg.Wait the counter is exactly
\* the number of tasks that completed all phases.
C12_DetailedCounterExact ==
    (fn = Detailed /\ Joined) => successfulTransactions = Cardinality(Completed)

\* Task t has computed its offset and slept.
Slept(t) == pc[t] \notin {"idle", "sleep"}

\* C13 (as claimed): the offset of task i, in nanoseconds, is i / tps seconds,
\* that is i * 10^9 / tps, and consecutive offsets differ by exactly 1 / tps
\* seconds.
C13_OffsetExact ==
    \A t \in Tasks :
      Slept(t) =>
        /\ offset[t] * tps = t * Second
        /\ (t > 0 /\ Slept(t - 1)) => (offset[t] - offset[t - 1]) * tps = Second

\* C13 (amended): interval is time.Second / tps rounded down to a whole
\* nanosecond, and the offset of task i is i * interval: the offsets are not
\* decreasing, consecutive offsets differ by exactly interval, and the offset is
\* never later than i / tps seconds and earlier by less than i nanoseconds; it
\* is i / tps seconds exactly when i = 0 or tps divides 10^9.
C13_OffsetTruncated ==
    \A t \in Tasks :
      Slept(t) =>
        /\ interval * tps <= Second /\ Second < (interval + 1) * tps
        /\ offset[t] = t * interval
        /\ offset[t] * tps <= t * Second
        /\ t * Second - offset[t] * tps < t * tps \/ t = 0
        /\ (offset[t] * tps = t * Second) <=> (t = 0 \/ Second % tps = 0)
        /\ (t > 0 /\ Slept(t - 1)) =>
             (offset[t] >= offset[t - 1] /\ offset[t] - offset[t - 1] = interval)

C13_Witness ==
    /\ tps = 3
    /\ numAssets = 2
    /\ Slept(0) /\ Slept(1)
    /\ offset[0] = 0
    /\ offset[1] = 333333333

\* The tasks whose commit.Status() returned a successful status.
Committed == {t \in Tasks : statusRet[t] = "successful"}

RECURSIVE SumStatusTime(_)
\* What the Status calls of the tasks of S took, in total.
SumStatusTime(S) ==
    IF S = {} THEN 0
    ELSE LET t == CHOOSE x \in S : TRUE
         IN  Elapsed(t, "Status") + SumStatusTime(S \ {t})

\* C14: in createAssetBenchDetailed, createAssetBenchEnd and createAssetEndorse
\* a commit.Status() that returns no error and a status that is not Successful
\* is a failure of the task at Status: the task ends there as a commit error,
\* with no commit duration and no latency recorded and no CSV line, and it is
\* not counted: the counter never exceeds the number of tasks whose status was
\* successful, and createAssetEndorse's commit total holds their Status times only.
C14_UnsuccessfulStatusFails ==
    /\ \A t \in Tasks :
         statusRet[t] = "unsuccessful" =>
           /\ outcome[t] = "CommitError"
           /\ pc[t] \in {"exit", "done"}
           /\ "commit" \notin SentOn(t)
           /\ "latency" \notin SentOn(t)
           /\ commitTime[t] = 0
           /\ csv[t] = 0
    /\ fn \in {Detailed, End, Endorse} =>
         successfulTransactions <= Cardinality(Committed)
    /\ fn = Endorse =>
         /\ successfulTransactions = Cardinality(Committed)
         /\ totalCommitTime = SumStatusTime(Committed)

C14_Witness ==
    /\ fn \in {End, Endorse}
    /\ mpc = "done"
    /\ numAssets = 2
    /\ statusRet[0] = "unsuccessful"
    /\ statusRet[1] = "successful"
    /\ successfulTransactions = 1
    /\ totalCommitTime = 3 * (Millisecond \div 4)

\* The tasks that called wg.Done().
Signalled == {t \in Tasks : wgDone[t] = 1}

\* C15: in the concurrent benchmarks every task calls wg.Done() exactly once,
\* when it returns, on every exit path (a failed phase or the end of the
\* phases); the WaitGroup's counter is numAssets less the tasks that signalled
\* and never negative; and, the goroutines being scheduled and every backend
\* call returning, wg.Wait() returns in the end.
C15_JoinTerminates ==
    /\ [](fn \in Concurrent =>
            /\ mpc /= "panic"
            /\ wg >= 0
            /\ \A t \in Tasks :
                 /\ wgDone[t] <= 1
                 /\ (pc[t] = "done") <=> (wgDone[t] = 1)
            /\ (mpc = "run" \/ Joined) => wg = numAssets - Cardinality(Signalled)
            /\ Joined => (wg = 0 /\ Signalled = 0 .. (numAssets - 1)))
    /\ (fn \in Concurrent /\ mpc = "run") ~> Joined

C15_Witness ==
    /\ fn = Detailed
    /\ mpc = "close"
    /\ numAssets = 2
    /\ outcome[0] = "EndorseError"
    /\ outcome[1] = "ok"
    /\ Signalled = {0, 1}
    /\ wg = 0

\* C16: the tasks are released open-loop.  A launched task can sleep its own
\* offset whatever the other tasks do, and no task waits for another task to
\* complete: the run never panics, a task that has returned from its last
\* backend call can send its latency and then signal, and the one wait is at
\* mu.Lock(), while another task is inside the critical section, which that
\* task can leave.  No send blocks: each task sends at most one value on each
\* channel, so a channel holds at most one value per task, never more than its
\* capacity, and has room for every task that has not sent on it yet.
C16_OpenLoop ==
    fn \in Concurrent =>
      /\ Alive
      /\ \A t \in Tasks :
           /\ pc[t] = "sleep" => ENABLED Sleep(t)
           /\ pc[t] = "latency" => ENABLED SendLatency(t)
           /\ pc[t] = "exit" => ENABLED TaskExit(t)
           /\ pc[t] = "lock" =>
                \/ ENABLED MuLock(t)
                \/ \E u \in Tasks \ {t} : mu = u /\ ENABLED MuUnlock(u)
      /\ \A name \in ChanNames :
           /\ Undrained => Len(Chan(name)) = Recorded(name)
           /\ (mpc = "run" \/ Joined) => Recorded(name) <= ChanCap(numAssets)
           /\ \A t \in Tasks :
                /\ Cardinality({q \in sent[t] : q[1] = name}) <= 1
                /\ (pc[t] \notin {"idle", "done"} /\ name \notin SentOn(t)) =>
                     Len(Chan(name)) < ChanCap(numAssets)

C16_Witness ==
    /\ fn = End
    /\ numAssets = 2
    /\ pc[0] = "sleep"
    /\ pc[1] = "done"
    /\ outcome[1] = "ok"
    /\ Len(latencyCh) = 1

\* C17: a concurrent benchmark called with tps > 0 and numAssets <= 0 runs with
\* numAssets = 1: only task 0 is launched, its offset is 0, no other task ever
\* starts, and the run goes on to its normal end (no panic, no stop before
\* the end), where task 0 has run and returned.
C17_NonPositiveCountIsOne ==
    (fn \in Concurrent /\ tps > 0 /\ argNumAssets <= 0) =>
      /\ mpc /= "entry" => (numAssets = 1 /\ interval = Interval(tps))
      /\ loopI <= 1
      /\ offset[0] = 0
      /\ \A t \in Tasks \ {0} : pc[t] = "idle" /\ calls[t] = <<>>
      /\ mpc /= "panic"
      /\ mpc /= "done" => ENABLED Next
      /\ mpc = "done" =>
           /\ report.kind \in {"summary", "noSuccess", "csv"}
           /\ pc[0] = "done" /\ calls[0] /= <<>> /\ wgDone[0] = 1

C17_Witness ==
    /\ fn = Bench
    /\ tps = 3
    /\ argNumAssets = -1
    /\ numAssets = 1
    /\ mpc = "done"
    /\ pc[0] = "done"
    /\ report.kind = "summary"
    /\ report.sent = 1

\* The slots of results that hold a successful result.
Successes == {k \in DOMAIN results : results[k].Success}

\* C18: in createAssetBench, after the loop over results, successfulTransactions
\* is the number of results with Success = true, and latenciesMs holds exactly
\* the latencies (in ms) of those results, one each, in the order of the slots;
\* totalLatency is their sum, and the summary's count and mean are computed
\* from these.
C18_OnlySuccessesCounted ==
    (fn = Bench /\ (mpc = "summary" \/ (mpc = "done" /\ report.kind = "summary"))) =>
      /\ successfulTransactions = Cardinality(Successes)
      /\ Len(latenciesMs) = Cardinality(Successes)
      /\ \A k \in Successes :
           latenciesMs[Cardinality({i \in Successes : i <= k})] =
             results[k].Latency \div Millisecond
      /\ totalLatency = SumSeq(latenciesMs)
      /\ mpc = "done" =>
           /\ report.success = Cardinality(Successes)
           /\ report.meanLatency = [num |-> totalLatency, den |-> Cardinality(Successes)]

C18_Witness ==
    /\ fn = Bench
    /\ mpc = "done"
    /\ report.kind = "summary"
    /\ numAssets = 2
    /\ Successes = {1}
    /\ results[0].Latency > results[1].Latency
    /\ latenciesMs = <<1>>
    /\ report.success = 1

RECURSIVE CsvLines(_)
\* The CSV data lines the tasks of S printed, in total.
CsvLines(S) ==
    IF S = {} THEN 0
    ELSE LET t == CHOOSE x \in S : TRUE IN csv[t] + CsvLines(S \ {t})

\* C19: in createAssetBenchDetailed a task prints its CSV line itself, when it
\* has completed its four phases and sent its latency, and before it calls
\* wg.Done(): no task prints more than one line, a task that returned after
\* completing has printed exactly one and a task that failed none, so once
\* wg.Wait has returned the number of CSV lines is the number of completed tasks.
C19_OneCsvLinePerCompleted ==
    fn = Detailed =>
      /\ \A t \in Tasks :
           /\ csv[t] <= 1
           /\ csv[t] = 1 =>
                /\ calls[t] = <<"Propose", "Endorse", "Submit", "Status">>
                /\ statusRet[t] = "successful"
                /\ "latency" \in SentOn(t)
           /\ (wgDone[t] = 1 /\ statusRet[t] = "successful") => csv[t] = 1
           /\ (wgDone[t] = 1 /\ outcome[t] \in Failures) => csv[t] = 0
      /\ Joined => CsvLines(Tasks) = Cardinality(Completed)

C19_Witness ==
    /\ fn = Detailed
    /\ mpc = "done"
    /\ numAssets = 2
    /\ csv[0] = 1
    /\ csv[1] = 0
    /\ outcome[1] = "SubmitError"
    /\ Completed = {0}

\* C20 (as claimed): in createAssetEndorse a failure of a phase of transaction i
\* does not end the batch: when the function has ended, however it ended, all
\* n transactions were attempted.
C20_AllAttempted ==
    (fn = Endorse /\ mpc \in {"done", "panic"}) =>
      \A t \in 0 .. (numAssets - 1) : calls[t] /= <<>>

\* C21 (as claimed): when createAssetEndorse's loop has ended with no successful
\* transaction, the function ends with a defined result and not with a division
\* by the zero count.
C21_EndorseNoSuccessDefined ==
    (fn = Endorse /\ mpc \in {"done", "panic"} /\ loopI >= numAssets
       /\ successfulTransactions = 0) =>
      (mpc = "done" /\ report.kind /= "divideByZero")

\* The value task t sent on the channel `name` (t has sent on it).
SentValue(t, name) == (CHOOSE p \in sent[t] : p[1] = name)[2]

\* The three phase durations task t delivered, summed.
PhaseSum(t) ==
    SentValue(t, "endorse") + SentValue(t, "ordering") + SentValue(t, "commit")

RECURSIVE PhaseSumOver(_)
PhaseSumOver(S) ==
    IF S = {} THEN 0
    ELSE LET t == CHOOSE x \in S : TRUE IN PhaseSum(t) + PhaseSumOver(S \ {t})

\* C22: in createAssetBenchDetailed and createAssetBenchEnd only a task that
\* completed all four phases sends a latency, and the latency is the sum of the
\* endorse, ordering and commit durations that same task sent on the phase
\* channels; so after wg.Wait the values of latencyCh (and, once
\* createAssetBenchEnd has drained it, totalLatency) sum to the three phase
\* durations of the completed tasks only.
C22_LatencyIsPhaseSum ==
    fn \in Staged =>
      /\ \A t \in Tasks :
           "latency" \in SentOn(t) =>
             /\ calls[t] = <<"Propose", "Endorse", "Submit", "Status">>
             /\ statusRet[t] = "successful"
             /\ {"endorse", "ordering", "commit"} \subseteq SentOn(t)
             /\ SentValue(t, "latency") = PhaseSum(t)
      /\ mpc \in {"close", "drain"} => SumSeq(latencyCh) = PhaseSumOver(Completed)
      /\ mpc = "report" => totalLatency = PhaseSumOver(Completed)

C22_Witness ==
    /\ fn = End
    /\ mpc = "report"
    /\ numAssets = 2
    /\ Completed = {1}
    /\ "ordering" \in SentOn(0)
    /\ totalLatency = SentValue(1, "endorse") + SentValue(1, "ordering")
                        + SentValue(1, "commit")
    /\ totalLatency < totalEndorseTime + totalOrderingTime + totalCommitTime

\* The positions from which a goroutine still sends on a channel.
Sending == {"sleep", "propose", "endorse", "submit", "status", "lock", "unlock",
            "incr", "incrW", "latency"}

\* C23: in createAssetBenchDetailed and createAssetBenchEnd the channels are
\* closed only when wg.Wait has returned, that is when every launched task has
\* returned, so no task is left to send on a closed channel and the run never
\* panics; createAssetBenchEnd's receiving loops start only when the channels
\* are closed, so they can end, and they leave the four channels empty.
C23_CloseAfterJoin ==
    fn \in Staged =>
      /\ Alive
      /\ closed =>
           /\ Joined /\ wg = 0
           /\ \A t \in Tasks : pc[t] \notin Sending
           /\ \A t \in 0 .. (numAssets - 1) : pc[t] = "done"
      /\ mpc = "close" => ~closed
      /\ mpc = "drain" => (closed /\ ENABLED Drain)
      /\ mpc = "report" \/ (fn = End /\ Joined /\ mpc = "done") =>
           (closed /\ \A name \in ChanNames : Chan(name) = <<>>)

C23_Witness ==
    /\ fn = End
    /\ mpc = "drain"
    /\ closed
    /\ numAssets = 2
    /\ Len(endorseTimeCh) = 2
    /\ Len(latencyCh) = 1

\* C24: in createAssetBenchEnd, from the creation of the channels on, the
\* numbers of values sent satisfy endorse >= ordering >= commit >=
\* successfulTransactions >= latency, none exceeds numAssets, and once wg.Wait
\* has returned the commit count, successfulTransactions and the latency count
\* are equal.
C24_CountChain ==
    (fn = End /\ (mpc = "run" \/ Joined)) =>
      /\ numAssets >= Recorded("endorse")
      /\ Recorded("endorse") >= Recorded("ordering")
      /\ Recorded("ordering") >= Recorded("commit")
      /\ Recorded("commit") >= successfulTransactions
      /\ successfulTransactions >= Recorded("latency")
      /\ Recorded("latency") >= 0
      /\ Joined =>
           /\ Recorded("commit") = successfulTransactions
           /\ successfulTransactions = Recorded("latency")

C24_Witness ==
    /\ fn = End
    /\ mpc = "run"
    /\ numAssets = 2
    /\ Recorded("endorse") = 2
    /\ Recorded("ordering") = 1
    /\ Recorded("commit") = 1
    /\ successfulTransactions = 1
    /\ Recorded("latency") = 0

\* The tasks that sent on the channel `name`.
Senders(name) == {t \in Tasks : name \in SentOn(t)}

RECURSIVE SentSum(_, _)
\* What the tasks of S sent on the channel `name`, in total.
SentSum(S, name) ==
    IF S = {} THEN 0
    ELSE LET t == CHOOSE x \in S : TRUE
         IN  SentValue(t, name) + SentSum(S \ {t}, name)

\* C25: the aggregates of createAssetBenchEnd are determined by what each task
\* did, whatever the interleaving: after wg.Wait the success count is the number
\* of completed tasks, and each total, taken over the channel in the order the
\* values arrived and then held in the total's variable, is the sum over the
\* tasks of what each sent on that channel.
C25_AggregatesOrderFree ==
    (fn = End /\ Joined) =>
      /\ successfulTransactions = Cardinality(Completed)
      /\ mpc = "drain" =>
           \A name \in ChanNames :
             SumSeq(Chan(name)) = SentSum(Senders(name), name)
      /\ (mpc = "report" \/ mpc = "done") =>
           /\ totalLatency = SentSum(Senders("latency"), "latency")
           /\ totalEndorseTime = SentSum(Senders("endorse"), "endorse")
           /\ totalOrderingTime = SentSum(Senders("ordering"), "ordering")
           /\ totalCommitTime = SentSum(Senders("commit"), "commit")

\* Task 1's values arrived before task 0's on one channel and after them on another.
C25_Witness ==
    /\ fn = End
    /\ mpc = "drain"
    /\ numAssets = 2
    /\ Completed = {0, 1}
    /\ SentValue(0, "endorse") /= SentValue(1, "endorse")
    /\ endorseTimeCh = <<SentValue(1, "endorse"), SentValue(0, "endorse")>>
    /\ latencyCh = <<SentValue(0, "latency"), SentValue(1, "latency")>>

====
